---------------------------- MODULE Spec2Model ----------------------------
(***************************************************************************)
(* A model of the tinyurl link service (src/server.js, latest revision,    *)
(* lines 243-466): the urls and click_logs tables, the request handlers of *)
(* POST /api/links, GET /api/links, GET /api/links/:code,                  *)
(* DELETE /api/links/:code, GET /:code and GET /healthz, and the           *)
(* interleaving of concurrent requests at their awaits.                    *)
(*                                                                         *)
(* Every pool.query is one atomic step of the store.  A handler that       *)
(* awaits several queries is several steps, and other requests may run     *)
(* between them.  The synchronous code before a handler's first query      *)
(* belongs to the step of that query, the code after a query to the step   *)
(* of the next one (or of the response).  A query either answers or        *)
(* throws; a query that throws has changed nothing.                        *)
(*                                                                         *)
(* A string is a sequence of one-character strings.  SQL NULL is the       *)
(* timestamp 0; NOW() is never 0.  user_agent and ip_address of a click    *)
(* log row are opaque to every handler and are left out of the rows.       *)
(* customCode and originalUrl range over JSON strings; a field that is     *)
(* absent is the empty string (both are falsy in the handler's tests).     *)
(***************************************************************************)
EXTENDS Integers, Sequences, FiniteSets, Bags, TLC

-----------------------------------------------------------------------------
(* Bounds of the model *)

\* number of requests that can be in flight at once
MaxReqs == 2
\* last value the urls id sequence hands out
MaxUrlId == 2
\* last value the click_logs id sequence hands out
MaxLogId == 2
\* last value of the clock
MaxTime == 2
\* largest click_count an UPDATE produces
MaxClicks == 2

-----------------------------------------------------------------------------
(* Characters and strings *)

LowerLetters == <<"a","b","c","d","e","f","g","h","i","j","k","l","m",
                  "n","o","p","q","r","s","t","u","v","w","x","y","z">>

UpperLetters == <<"A","B","C","D","E","F","G","H","I","J","K","L","M",
                  "N","O","P","Q","R","S","T","U","V","W","X","Y","Z">>

Digits == <<"0","1","2","3","4","5","6","7","8","9">>

HexDigits == <<"0","1","2","3","4","5","6","7","8","9","a","b","c","d","e","f">>

Range(s) == {s[i] : i \in DOMAIN s}

\* [A-Za-z0-9]
Alnum == Range(LowerLetters) \cup Range(UpperLetters) \cup Range(Digits)

\* the characters String.prototype.trim removes (those the inputs use)
WhiteSpace == {" ", "\t", "\n", "\r"}

\* case folding of ILIKE
LowerChar(c) ==
    IF c \in Range(UpperLetters)
    THEN LowerLetters[CHOOSE i \in DOMAIN UpperLetters : UpperLetters[i] = c]
    ELSE c

RECURSIVE TrimStart(_)
TrimStart(s) ==
    IF s # <<>> /\ Head(s) \in WhiteSpace THEN TrimStart(Tail(s)) ELSE s

RECURSIVE TrimEnd(_)
TrimEnd(s) ==
    IF s # <<>> /\ s[Len(s)] \in WhiteSpace
    THEN TrimEnd(SubSeq(s, 1, Len(s) - 1))
    ELSE s

\* customCode.trim()
trim(s) == TrimEnd(TrimStart(s))

HasPrefix(s, p) == Len(s) >= Len(p) /\ SubSeq(s, 1, Len(p)) = p

-----------------------------------------------------------------------------
(* Utilities of the service *)

\* Buffer.toString('hex') of one byte
ByteToHex(b) == <<HexDigits[(b \div 16) + 1], HexDigits[(b % 16) + 1]>>

\* crypto.randomBytes(3).toString('hex'), for the three bytes drawn
generateShortCode(bytes) ==
    ByteToHex(bytes[1]) \o ByteToHex(bytes[2]) \o ByteToHex(bytes[3])

\* /^[A-Za-z0-9]{6,8}$/.test(code)
\* isValidCode with the pattern /^[A-Za-z0-9]+$/, its {6,8} lost
isValidCode_AnyLength(code) ==
    Len(code) >= 1 /\ \A i \in DOMAIN code : code[i] \in Alnum

isValidCode(code) ==
    /\ Len(code) >= 6
    /\ Len(code) <= 8
    /\ \A i \in DOMAIN code : code[i] \in Alnum

\* characters valid-url accepts in a URI
UriChars == Alnum \cup {":", "/", "?", "#", "[", "]", "@", "!", "$", "&", "'",
                       "(", ")", "*", "+", ",", ";", "=", ".", "-", "_", "~", "%"}

\* validUrl.isWebUri(originalUrl): an http or https URI with an authority
isWebUri(s) ==
    /\ \A i \in DOMAIN s : s[i] \in UriChars
    /\ \/ HasPrefix(s, <<"h","t","t","p",":","/","/">>)
          /\ Len(s) > 7 /\ s[8] \in Alnum
       \/ HasPrefix(s, <<"h","t","t","p","s",":","/","/">>)
          /\ Len(s) > 8 /\ s[9] \in Alnum

\* text ILIKE pattern: % matches any run of characters, _ any one character,
\* every other character itself, letters without regard to case
RECURSIVE ILike(_, _)
ILike(text, pat) ==
    IF pat = <<>> THEN text = <<>>
    ELSE IF Head(pat) = "%"
         THEN \/ ILike(text, Tail(pat))
              \/ text # <<>> /\ ILike(Tail(text), pat)
    ELSE IF text = <<>> THEN FALSE
    ELSE IF Head(pat) = "_" THEN ILike(Tail(text), Tail(pat))
    ELSE /\ LowerChar(Head(text)) = LowerChar(Head(pat))
         /\ ILike(Tail(text), Tail(pat))


-----------------------------------------------------------------------------
(* Inputs the requests draw from *)

abcdef == <<"a","b","c","d","e","f">>

ABCDEF == <<"A","B","C","D","E","F">>

UrlA == <<"h","t","t","p",":","/","/","a",".","i","o">>

UrlB == <<"h","t","t","p","s",":","/","/","b",".","i","o","/","x","_","y">>

NoWebUri == <<"a",".","i","o">>

\* body.customCode: absent; valid; valid once trimmed; a character outside
\* the pattern; too short; too long; only white space
CustomCodes ==
    {<<>>,
     abcdef,
     <<" ">> \o ABCDEF \o <<"\n">>,
     <<"a","b","c","_","e","f">>,
     <<"a","b","c","d","e">>,
     abcdef \o <<"g","h","i">>,
     <<" "," ">>}

\* req.body of POST /api/links: no originalUrl; one that is no web URI; a
\* web URI with each custom code; a second web URI with no custom code
CreateBodies ==
    {[originalUrl |-> <<>>, customCode |-> <<>>],
     [originalUrl |-> NoWebUri, customCode |-> abcdef]}
    \cup {[originalUrl |-> UrlA, customCode |-> c] : c \in CustomCodes}
    \cup {[originalUrl |-> UrlB, customCode |-> <<>>]}

\* outcomes of crypto.randomBytes(3)
RandomBytes == {<<171, 205, 239>>}

\* params.shortCode of GET /:code, GET and DELETE /api/links/:code
PathCodes == {abcdef, ABCDEF}

\* query.search: absent, a term in another case, a term with _
SearchTerms == {<<>>, <<"A",".","I">>, <<"b","_","d">>}

-----------------------------------------------------------------------------
(* State *)

VARIABLES
    urls,               \* table urls: a set of rows
    click_logs,         \* table click_logs: a set of rows
    urls_id_seq,        \* next value of urls.id (SERIAL)
    click_logs_id_seq,  \* next value of click_logs.id (SERIAL)
    now,                \* the clock NOW() reads
    req,                \* the requests in flight, a bag: of each the
                        \* handler's locals and its position
    res                 \* the response being sent, with the request it
                        \* answers: <<>> or <<response>>

vars == <<urls, click_logs, urls_id_seq, click_logs_id_seq, now, req, res>>

store == <<urls, click_logs, urls_id_seq, click_logs_id_seq>>

\* last_clicked_at of a row never clicked
NULL == 0

\* res.redirect('/404')
NotFoundPage == <<"/","4","0","4">>

\* a request slot before any request, and the locals a handler starts with
Fresh ==
    [op |-> "none", pc |-> "idle",
     originalUrl |-> <<>>, customCode |-> <<>>, shortCode |-> <<>>,
     search |-> <<>>, urlData |-> <<>>,
     err |-> "none", status |-> 0, error |-> "", location |-> <<>>,
     data |-> <<>>, click_logs |-> <<>>]

\* the process sends one response at a time: a handler's step runs once the
\* response of the step before it is out
Ready == res = <<>>

\* a new request can be taken
Free == Ready /\ BagCardinality(req) < MaxReqs

\* p is a request in flight
InFlight(p) == Ready /\ BagIn(p, req)

\* a new request goes on as q; a q that is done is the response
Launch(q) ==
    IF q.pc = "done"
    THEN req' = req /\ res' = <<q>>
    ELSE req' = req (+) SetToBag({q}) /\ res' = <<>>

\* the request in flight p goes on as q; a q that is done is the response
Continue(p, q) ==
    IF q.pc = "done"
    THEN req' = req (-) SetToBag({p}) /\ res' = <<q>>
    ELSE req' = (req (-) SetToBag({p})) (+) SetToBag({q}) /\ res' = <<>>

\* res.status(status).json({ error }) and the handler returns
ReplyError(q, status, error) ==
    [q EXCEPT !.pc = "done", !.status = status, !.error = error]

\* the catch block of a handler: the query threw err
Caught(q, err, status, error) ==
    [q EXCEPT !.pc = "done", !.err = err, !.status = status, !.error = error]

\* every enumeration of the set S as a sequence
SeqsOf(S) ==
    {f \in [1..Cardinality(S) -> S] :
        \A i, j \in 1..Cardinality(S) : i # j => f[i] # f[j]}

\* result.rows of SELECT * FROM urls WHERE short_code = $1
SelectByCode(code) ==
    CHOOSE f \in SeqsOf({u \in urls : u.short_code = code}) : TRUE

\* the columns id, short_code, original_url, click_count, last_clicked_at
Summary(u) ==
    [id |-> u.id, short_code |-> u.short_code, original_url |-> u.original_url,
     click_count |-> u.click_count, last_clicked_at |-> u.last_clicked_at]

Init ==
    /\ urls = {}
    /\ click_logs = {}
    /\ urls_id_seq = 1
    /\ click_logs_id_seq = 1
    /\ now = 1
    /\ req = EmptyBag
    /\ res = <<>>

-----------------------------------------------------------------------------
(* POST /api/links *)

\* customCode ? customCode.trim() : generateShortCode()
ResolveCode(customCode, bytes) ==
    IF customCode # <<>> THEN trim(customCode) ELSE generateShortCode(bytes)

\* the row INSERT INTO urls (short_code, original_url) stores: id from the
\* sequence, created_at DEFAULT NOW(), click_count DEFAULT 0, last_clicked_at
\* without default
NewUrlRow(shortCode, originalUrl) ==
    [id |-> urls_id_seq, short_code |-> shortCode, original_url |-> originalUrl,
     created_at |-> now, click_count |-> 0, last_clicked_at |-> NULL]

\* CreateLink without the pre-check: the INSERT is left to find the conflict
CreateLink_NoPreCheck(originalUrl, customCode, bytes, ok) ==
    /\ Free
    /\ LET shortCode == ResolveCode(customCode, bytes)
           q == [Fresh EXCEPT !.op = "create", !.originalUrl = originalUrl,
                              !.customCode = customCode]
       IN  Launch(
             IF originalUrl = <<>> \/ ~isWebUri(originalUrl)
             THEN ReplyError(q, 400, "Invalid URL")
             ELSE IF ~isValidCode(shortCode)
             THEN ReplyError([q EXCEPT !.shortCode = shortCode], 400,
                             "Code must be 6-8 alphanumeric characters")
             ELSE [q EXCEPT !.shortCode = shortCode, !.pc = "insert"])
    /\ UNCHANGED <<store, now>>

\* the handler up to its first await: the two validations, then the
\* pre-check SELECT (which answers when ok, and throws otherwise)
CreateLink(originalUrl, customCode, bytes, ok) ==
    /\ Free
    /\ LET shortCode == ResolveCode(customCode, bytes)
           q == [Fresh EXCEPT !.op = "create", !.originalUrl = originalUrl,
                              !.customCode = customCode]
           exists == SelectByCode(shortCode)
       IN  Launch(
             IF originalUrl = <<>> \/ ~isWebUri(originalUrl)
             THEN ReplyError(q, 400, "Invalid URL")
             ELSE IF ~isValidCode(shortCode)
             THEN ReplyError([q EXCEPT !.shortCode = shortCode], 400,
                             "Code must be 6-8 alphanumeric characters")
             ELSE IF ~ok
             THEN Caught([q EXCEPT !.shortCode = shortCode], "store", 500,
                         "Failed to create short URL")
             ELSE IF Len(exists) > 0
             THEN ReplyError([q EXCEPT !.shortCode = shortCode], 409,
                             "Short code already exists")
             ELSE [q EXCEPT !.shortCode = shortCode, !.pc = "insert"])
    /\ UNCHANGED <<store, now>>

\* the INSERT ... RETURNING *, and the 201 response.  urls.short_code is
\* UNIQUE: an insert of a code the table holds throws (the id drawn from the
\* sequence is lost), and the catch block answers 500
CreateInsert(q, ok) ==
    /\ InFlight(q)
    /\ q.pc = "insert"
    /\ LET row == NewUrlRow(q.shortCode, q.originalUrl)
       IN  IF ~ok
           THEN /\ Continue(q, Caught(q, "store", 500,
                                      "Failed to create short URL"))
                /\ UNCHANGED <<store, now>>
           ELSE /\ urls_id_seq <= MaxUrlId
                /\ urls_id_seq' = urls_id_seq + 1
                /\ IF \E u \in urls : u.short_code = q.shortCode
                   THEN /\ Continue(q, Caught(q, "unique_violation", 500,
                                              "Failed to create short URL"))
                        /\ UNCHANGED urls
                   ELSE /\ urls' = urls \cup {row}
                        /\ Continue(q, [q EXCEPT !.pc = "done", !.status = 201,
                                                 !.data = <<row>>])
                /\ UNCHANGED <<click_logs, click_logs_id_seq, now>>

-----------------------------------------------------------------------------
(* GET /api/links *)

\* WHERE short_code ILIKE $1 OR original_url ILIKE $1, $1 = `%${search}%`
Matches(u, search) ==
    LET pat == <<"%">> \o search \o <<"%">>
    IN  ILike(u.short_code, pat) \/ ILike(u.original_url, pat)

\* ORDER BY created_at DESC: any order of the rows that respects it
OrderedByCreatedDesc(S) ==
    {f \in SeqsOf(S) :
        \A i, j \in DOMAIN f : i < j => f[i].created_at >= f[j].created_at}

ListLinks(search, ok) ==
    /\ Free
    /\ LET q == [Fresh EXCEPT !.op = "list", !.search = search]
       IN  IF ~ok
           THEN Launch( Caught(q, "store", 500, "Failed to fetch links"))
           ELSE \E rows \in OrderedByCreatedDesc({u \in urls : Matches(u, search)}) :
                    Launch( [q EXCEPT !.pc = "done", !.status = 200,
                        !.data = [i \in DOMAIN rows |-> Summary(rows[i])]])
    /\ UNCHANGED <<store, now>>

-----------------------------------------------------------------------------
(* GET /api/links/:shortCode *)

GetStats(shortCode, ok) ==
    /\ Free
    /\ LET q == [Fresh EXCEPT !.op = "get", !.shortCode = shortCode]
           urlRes == SelectByCode(shortCode)
       IN  Launch(
             IF ~ok
             THEN Caught(q, "store", 500, "Failed to fetch stats")
             ELSE IF Len(urlRes) = 0
             THEN ReplyError(q, 404, "Short code not found")
             ELSE [q EXCEPT !.pc = "get_logs",
                            !.urlData = <<Summary(urlRes[1])>>])
    /\ UNCHANGED <<store, now>>

\* ORDER BY click_time DESC, columns click_time (user_agent, ip_address)
OrderedByClickTimeDesc(S) ==
    {f \in SeqsOf(S) :
        \A i, j \in DOMAIN f : i < j => f[i].click_time >= f[j].click_time}

GetStatsLogs(q, ok) ==
    /\ InFlight(q)
    /\ q.pc = "get_logs"
    /\ IF ~ok
           THEN Continue(q, Caught(q, "store", 500, "Failed to fetch stats"))
           ELSE \E rows \in OrderedByClickTimeDesc(
                        {l \in click_logs : l.url_id = q.urlData[1].id}) :
                    Continue(q, [q EXCEPT !.pc = "done", !.status = 200,
                        !.data = q.urlData,
                        !.click_logs = [i \in DOMAIN rows |->
                                          [click_time |-> rows[i].click_time]]])
    /\ UNCHANGED <<store, now>>

-----------------------------------------------------------------------------
(* DELETE /api/links/:shortCode *)

\* DELETE FROM urls WHERE short_code = $1 RETURNING *; click_logs.url_id
\* REFERENCES urls(id) ON DELETE CASCADE
DeleteLink(shortCode, ok) ==
    /\ Free
    /\ LET q == [Fresh EXCEPT !.op = "delete", !.shortCode = shortCode]
           rows == SelectByCode(shortCode)
       IN  IF ~ok
           THEN /\ Launch( Caught(q, "store", 500, "Failed to delete link"))
                /\ UNCHANGED <<urls, click_logs>>
           ELSE /\ urls' = {u \in urls : u.short_code # shortCode}
                /\ click_logs' =
                      {l \in click_logs :
                          \A i \in DOMAIN rows : l.url_id # rows[i].id}
                /\ Launch(
                      IF Len(rows) = 0
                      THEN ReplyError(q, 404, "Short code not found")
                      ELSE [q EXCEPT !.pc = "done", !.status = 200,
                                     !.data = rows])
    /\ UNCHANGED <<urls_id_seq, click_logs_id_seq, now>>

-----------------------------------------------------------------------------
(* GET /:shortCode *)

\* Redirect without the test of result.rows.length: urlData is undefined,
\* urlData.id throws, and the catch block answers 500
Redirect_NoLengthTest(shortCode, ok) ==
    /\ Free
    /\ LET q == [Fresh EXCEPT !.op = "redirect", !.shortCode = shortCode]
           result == SelectByCode(shortCode)
       IN  Launch(
             IF ~ok
             THEN Caught(q, "store", 500, "Server error")
             ELSE IF Len(result) = 0
             THEN Caught(q, "type", 500, "Server error")
             ELSE [q EXCEPT !.pc = "update", !.urlData = result])
    /\ UNCHANGED <<store, now>>

\* Lookup: SELECT * FROM urls WHERE short_code = $1
Redirect(shortCode, ok) ==
    /\ Free
    /\ LET q == [Fresh EXCEPT !.op = "redirect", !.shortCode = shortCode]
           result == SelectByCode(shortCode)
       IN  Launch(
             IF ~ok
             THEN Caught(q, "store", 500, "Server error")
             ELSE IF Len(result) = 0
             THEN [q EXCEPT !.pc = "done", !.status = 302,
                            !.location = NotFoundPage]
             ELSE [q EXCEPT !.pc = "update", !.urlData = result])
    /\ UNCHANGED <<store, now>>

\* Clicked without the increment
Clicked_NoIncrement(u) == [u EXCEPT !.last_clicked_at = now]

\* Clicked with SET created_at = NOW() as well
Clicked_AndCreatedAt(u) ==
    [u EXCEPT !.click_count = u.click_count + 1, !.last_clicked_at = now,
              !.created_at = now]

\* the row after SET click_count = click_count + 1, last_clicked_at = NOW()
Clicked(u) ==
    [u EXCEPT !.click_count = u.click_count + 1, !.last_clicked_at = now]

\* RedirectUpdate as a read-modify-write: SET click_count = $2, the value the
\* lookup read plus 1 computed in the handler
RedirectUpdate_LostUpdate(q, ok) ==
    /\ InFlight(q)
    /\ q.pc = "update"
    /\ LET id == q.urlData[1].id
       IN  IF ~ok
           THEN /\ Continue(q, Caught(q, "store", 500, "Server error"))
                /\ UNCHANGED urls
           ELSE /\ \A u \in urls : u.id = id => u.click_count < MaxClicks
                /\ urls' = {IF u.id = id
                            THEN [u EXCEPT !.click_count =
                                              q.urlData[1].click_count + 1,
                                           !.last_clicked_at = now]
                            ELSE u : u \in urls}
                /\ Continue(q, [q EXCEPT !.pc = "log"])
    /\ UNCHANGED <<click_logs, urls_id_seq, click_logs_id_seq, now>>

\* Update: UPDATE urls SET ... WHERE id = $1 (no row with that id: no change,
\* no error)
RedirectUpdate(q, ok) ==
    /\ InFlight(q)
    /\ q.pc = "update"
    /\ LET id == q.urlData[1].id
       IN  IF ~ok
           THEN /\ Continue(q, Caught(q, "store", 500, "Server error"))
                /\ UNCHANGED urls
           ELSE /\ \A u \in urls : u.id = id => u.click_count < MaxClicks
                /\ urls' = {IF u.id = id THEN Clicked(u) ELSE u : u \in urls}
                /\ Continue(q, [q EXCEPT !.pc = "log"])
    /\ UNCHANGED <<click_logs, urls_id_seq, click_logs_id_seq, now>>

\* the row INSERT INTO click_logs (url_id, user_agent, ip_address) stores
NewLogRow(url_id) ==
    [id |-> click_logs_id_seq, url_id |-> url_id, click_time |-> now]

\* RedirectLog on a table click_logs whose url_id references nothing
RedirectLog_NoForeignKey(q, ok) ==
    /\ InFlight(q)
    /\ q.pc = "log"
    /\ LET urlData == q.urlData[1]
       IN  IF ~ok
           THEN /\ Continue(q, Caught(q, "store", 500, "Server error"))
                /\ UNCHANGED <<click_logs, click_logs_id_seq>>
           ELSE /\ click_logs_id_seq <= MaxLogId
                /\ click_logs_id_seq' = click_logs_id_seq + 1
                /\ click_logs' = click_logs \cup {NewLogRow(urlData.id)}
                /\ Continue(q, [q EXCEPT !.pc = "done", !.status = 302,
                                         !.location = urlData.original_url])
    /\ UNCHANGED <<urls, urls_id_seq, now>>

\* RedirectLog with the INSERT in a try of its own: the redirect is issued
\* whether or not the entry was written
RedirectLog_RedirectsAnyway(q, ok) ==
    /\ InFlight(q)
    /\ q.pc = "log"
    /\ LET urlData == q.urlData[1]
           sent == [q EXCEPT !.pc = "done", !.status = 302,
                             !.location = urlData.original_url]
       IN  IF ~ok
           THEN /\ Continue(q, sent)
                /\ UNCHANGED <<click_logs, click_logs_id_seq>>
           ELSE /\ click_logs_id_seq <= MaxLogId
                /\ click_logs_id_seq' = click_logs_id_seq + 1
                /\ Continue(q, sent)
                /\ IF \E u \in urls : u.id = urlData.id
                   THEN click_logs' = click_logs \cup {NewLogRow(urlData.id)}
                   ELSE UNCHANGED click_logs
    /\ UNCHANGED <<urls, urls_id_seq, now>>

\* Log, then Redirect: the INSERT into click_logs and the 302 response.
\* click_logs.url_id REFERENCES urls(id): an insert for an id the table urls
\* does not hold throws, and the catch block answers 500
RedirectLog(q, ok) ==
    /\ InFlight(q)
    /\ q.pc = "log"
    /\ LET urlData == q.urlData[1]
       IN  IF ~ok
           THEN /\ Continue(q, Caught(q, "store", 500, "Server error"))
                /\ UNCHANGED <<click_logs, click_logs_id_seq>>
           ELSE /\ click_logs_id_seq <= MaxLogId
                /\ click_logs_id_seq' = click_logs_id_seq + 1
                /\ IF \E u \in urls : u.id = urlData.id
                   THEN /\ click_logs' = click_logs \cup {NewLogRow(urlData.id)}
                        /\ Continue(q, [q EXCEPT !.pc = "done", !.status = 302,
                                          !.location = urlData.original_url])
                   ELSE /\ Continue(q, Caught(q, "foreign_key_violation", 500,
                                              "Server error"))
                        /\ UNCHANGED click_logs
    /\ UNCHANGED <<urls, urls_id_seq, now>>

-----------------------------------------------------------------------------
(* GET /healthz *)

\* SELECT 1
Healthz(ok) ==
    /\ Free
    /\ LET q == [Fresh EXCEPT !.op = "health"]
       IN  Launch(
             IF ok
             THEN [q EXCEPT !.pc = "done", !.status = 200]
             ELSE Caught(q, "store", 503, "unreachable"))
    /\ UNCHANGED <<store, now>>

-----------------------------------------------------------------------------
(* The clock, the socket, and the system *)

\* time passes
Tick ==
    /\ Ready
    /\ now < MaxTime
    /\ now' = now + 1
    /\ UNCHANGED <<store, req, res>>

\* the response is out
Sent ==
    /\ res # <<>>
    /\ res' = <<>>
    /\ UNCHANGED <<store, now, req>>

\* crypto.randomBytes is called only when no custom code is given
BytesFor(customCode) ==
    IF customCode # <<>> THEN {<<0, 0, 0>>} ELSE RandomBytes

Next ==
    \/ \E body \in CreateBodies, ok \in BOOLEAN :
            \E bytes \in BytesFor(body.customCode) :
                CreateLink(body.originalUrl, body.customCode, bytes, ok)
    \/ \E q \in BagToSet(req), ok \in BOOLEAN : CreateInsert(q, ok)
    \/ \E search \in SearchTerms, ok \in BOOLEAN : ListLinks(search, ok)
    \/ \E shortCode \in PathCodes, ok \in BOOLEAN : GetStats(shortCode, ok)
    \/ \E q \in BagToSet(req), ok \in BOOLEAN : GetStatsLogs(q, ok)
    \/ \E shortCode \in PathCodes, ok \in BOOLEAN : DeleteLink(shortCode, ok)
    \/ \E shortCode \in PathCodes, ok \in BOOLEAN : Redirect(shortCode, ok)
    \/ \E q \in BagToSet(req), ok \in BOOLEAN : RedirectUpdate(q, ok)
    \/ \E q \in BagToSet(req), ok \in BOOLEAN : RedirectLog(q, ok)
    \/ \E ok \in BOOLEAN : Healthz(ok)
    \/ Tick
    \/ Sent

Spec == Init /\ [][Next]_vars

-----------------------------------------------------------------------------
(* What a step shows: the response it sends, the request it starts *)

\* some Mapping has the short code c
HasCode(c) == \E u \in urls : u.short_code = c

\* the step sends a response (res' holds it)
Answers == res = <<>> /\ res' # <<>>

\* the step takes a new request and answers it at once
AnswersAtOnce == Answers /\ req' = req

\* the step takes the new request q, which stays in flight
Starts(q) == res = <<>> /\ res' = <<>> /\ req' = req (+) SetToBag({q})

\* the step leaves both tables as they are
StoreUntouched == urls' = urls /\ click_logs' = click_logs

-----------------------------------------------------------------------------
(* C1 *)

UniqueCodes == \A u, v \in urls : u.short_code = v.short_code => u = v

\* a Create that found its code at the pre-check: no such request gets past
\* the pre-check, and the answer of one that was validated and whose SELECT
\* answered is 409
ConflictAtPreCheck ==
    /\ \A q \in BagToSet(req') :
          (q.op = "create" /\ Starts(q)) => ~HasCode(q.shortCode)
    /\ (/\ AnswersAtOnce
        /\ res'[1].op = "create"
        /\ res'[1].status # 400
        /\ res'[1].err # "store")
       => /\ res'[1].status = 409
          /\ res'[1].error = "Short code already exists"
          /\ HasCode(res'[1].shortCode)

\* a Create changes the tables only by adding the row it answers 201 with,
\* and only when no Mapping had its code
CreateNeverOverwrites ==
    (Answers /\ res'[1].op = "create")
    => IF res'[1].status = 201
       THEN /\ ~HasCode(res'[1].shortCode)
            /\ res'[1].data[1] \notin urls
            /\ urls' = urls \cup {res'[1].data[1]}
            /\ click_logs' = click_logs
       ELSE StoreUntouched

\* C1: no two Mappings ever share a short_code; a Create whose code is in the
\* store when its pre-check runs is answered 409 'Short code already exists';
\* and a Create whose code is in the store changes no Mapping and adds no row
C1_UniqueCodeConflictNoOverwrite ==
    /\ []UniqueCodes
    /\ [][ConflictAtPreCheck /\ CreateNeverOverwrites]_vars

\* a Create was answered 409 for a code whose Mapping holds another URL
C1_Witness ==
    /\ res # <<>>
    /\ res[1].op = "create"
    /\ res[1].status = 409
    /\ \E u \in urls : /\ u.short_code = res[1].shortCode
                       /\ u.original_url # res[1].originalUrl

-----------------------------------------------------------------------------
(* C2 *)

\* C2: a Create whose INSERT the unique constraint rejects (the other of two
\* concurrent Creates of the code inserted first) is answered like the
\* pre-check: 409 'Short code already exists'
C2_RaceAnsweredAsConflict ==
    (res # <<>> /\ res[1].op = "create" /\ res[1].err = "unique_violation")
    => /\ res[1].status = 409
       /\ res[1].error = "Short code already exists"

-----------------------------------------------------------------------------
(* C3 *)

\* the request in flight p goes on as q in this step
Advances(p, q) ==
    /\ res = <<>>
    /\ res' = <<>>
    /\ BagIn(p, req)
    /\ req' = (req (-) SetToBag({p})) (+) SetToBag({q})

\* the step answers a redirect with 302 to the Mapping's original_url
Answers302 ==
    /\ Answers
    /\ res'[1].op = "redirect"
    /\ res'[1].status = 302
    /\ res'[1].location # NotFoundPage

\* C3 as claimed, for the redirects no query of which the store made fail on
\* its own: a redirect that found its Mapping ends with the Mapping's
\* click_count one above the value read, last_clicked_at not before the value
\* read, and a Click Log Entry of the Mapping
C3_EveryRedirectCounts ==
    (/\ res # <<>>
     /\ res[1].op = "redirect"
     /\ res[1].urlData # <<>>
     /\ res[1].err # "store")
    => \E u \in urls :
          /\ u.id = res[1].urlData[1].id
          /\ u.click_count = res[1].urlData[1].click_count + 1
          /\ u.last_clicked_at >= res[1].urlData[1].last_clicked_at
          /\ \E l \in click_logs : l.url_id = u.id

\* a redirect past its UPDATE whose Mapping is in the store: the Mapping has
\* been clicked since the lookup
CountedSinceLookup ==
    \A q \in BagToSet(req) :
        (q.op = "redirect" /\ q.pc = "log")
        => \A u \in urls :
              u.id = q.urlData[1].id
              => /\ u.click_count >= q.urlData[1].click_count + 1
                 /\ u.last_clicked_at # NULL
                 /\ u.last_clicked_at >= q.urlData[1].last_clicked_at

\* the UPDATE of a redirect: the Mapping's click_count goes up by 1, its
\* last_clicked_at to a time not before, and nothing else changes
UpdateAddsOne ==
    \A q \in BagToSet(req) :
        (/\ q.op = "redirect"
         /\ q.pc = "update"
         /\ Advances(q, [q EXCEPT !.pc = "log"]))
        => /\ click_logs' = click_logs
           /\ Cardinality(urls') = Cardinality(urls)
           /\ \A u \in urls :
                IF u.id = q.urlData[1].id
                THEN \E v \in urls' :
                        /\ v = [u EXCEPT !.click_count = u.click_count + 1,
                                         !.last_clicked_at = v.last_clicked_at]
                        /\ v.last_clicked_at # NULL
                        /\ v.last_clicked_at >= u.last_clicked_at
                ELSE u \in urls'

\* the answer 302 of a redirect comes with exactly one new Click Log Entry, of
\* the Mapping, which is in the store and counts the click; any other answer
\* of a redirect comes with none
AnswerLogsOne ==
    (Answers /\ res'[1].op = "redirect")
    => IF Answers302
       THEN LET d == res'[1].urlData[1]
            IN  /\ res'[1].location = d.original_url
                /\ \E l \in click_logs' :
                      /\ l \notin click_logs
                      /\ click_logs' = click_logs \cup {l}
                      /\ l.url_id = d.id
                /\ urls' = urls
                /\ \E u \in urls :
                      /\ u.id = d.id
                      /\ u.click_count >= d.click_count + 1
                      /\ u.last_clicked_at >= d.last_clicked_at
       ELSE click_logs' = click_logs

\* C3, amended: for every redirect answered 302 to original_url, the
\* request's UPDATE raised the Mapping's click_count by exactly 1 and set
\* last_clicked_at to a time not before its previous value, and the request
\* appended exactly one Click Log Entry of that Mapping; a redirect answered
\* otherwise appended none
C3_AnsweredRedirectCounts ==
    /\ []CountedSinceLookup
    /\ [][UpdateAddsOne /\ AnswerLogsOne]_vars

\* a redirect was answered 302 on a Mapping clicked before
C3_Witness ==
    /\ res # <<>>
    /\ res[1].op = "redirect"
    /\ res[1].status = 302
    /\ res[1].location = UrlA
    /\ res[1].urlData[1].last_clicked_at # NULL
    /\ \E u \in urls : u.id = res[1].urlData[1].id /\ u.click_count = 2

-----------------------------------------------------------------------------
(* C4 *)

\* the sequences are where they were
SequencesUntouched ==
    urls_id_seq' = urls_id_seq /\ click_logs_id_seq' = click_logs_id_seq

\* a redirect whose lookup finds no Mapping does not go on, and its answer is
\* the not-found page, with the store as it was
NotFoundAtLookup ==
    /\ \A q \in BagToSet(req') :
          (q.op = "redirect" /\ Starts(q)) => HasCode(q.shortCode)
    /\ (/\ AnswersAtOnce
        /\ res'[1].op = "redirect"
        /\ res'[1].err # "store")
       => /\ ~HasCode(res'[1].shortCode)
          /\ res'[1].status = 302
          /\ res'[1].location = NotFoundPage
          /\ StoreUntouched
          /\ SequencesUntouched

\* C4: a redirect whose code is not in the store at its lookup ends there,
\* answered with the redirect to /404, and leaves every Mapping and every
\* Click Log Entry as it was
C4_UnknownCodeNotFound == [][NotFoundAtLookup]_vars

\* a redirect on a code no Mapping has was answered while the store holds a
\* clicked Mapping
C4_Witness ==
    /\ res # <<>>
    /\ res[1].op = "redirect"
    /\ res[1].location = NotFoundPage
    /\ ~HasCode(res[1].shortCode)
    /\ click_logs # {}

-----------------------------------------------------------------------------
(* C5 *)

\* every Click Log Entry is of a Mapping in the store
LogsHaveMapping == \A l \in click_logs : \E u \in urls : u.id = l.url_id

\* an id is given once: no Mapping has an id the sequence has yet to give
IdsGivenOnce == \A u \in urls : u.id < urls_id_seq

\* the answer 200 of a Delete: the Mapping of the code and its Click Log
\* Entries are gone, and nothing else is
DeleteCascades ==
    (Answers /\ res'[1].op = "delete" /\ res'[1].status = 200)
    => LET gone == {u \in urls : u.short_code = res'[1].shortCode}
       IN  /\ gone # {}
           /\ urls' = urls \ gone
           /\ click_logs' =
                {l \in click_logs : \A u \in gone : l.url_id # u.id}
           /\ \A u \in urls' : u.short_code # res'[1].shortCode
           /\ \A l \in click_logs', u \in gone : l.url_id # u.id

\* a Get whose lookup finds no Mapping does not go on, and is answered 404
GetNotFound ==
    /\ \A q \in BagToSet(req') :
          (q.op = "get" /\ Starts(q)) => HasCode(q.shortCode)
    /\ (/\ AnswersAtOnce
        /\ res'[1].op = "get"
        /\ res'[1].err # "store")
       => /\ ~HasCode(res'[1].shortCode)
          /\ res'[1].status = 404

\* C5: a Delete answered 200 has removed the Mapping of the code and every
\* Click Log Entry of it; a Get or a redirect that looks the code up while no
\* Mapping has it is answered not-found; and no Click Log Entry is ever of a
\* Mapping that is not in the store, also when a redirect had passed its
\* lookup before the Delete
C5_DeleteCascadesNoOrphan ==
    /\ [](LogsHaveMapping /\ IdsGivenOnce)
    /\ [][DeleteCascades /\ GetNotFound /\ NotFoundAtLookup]_vars

\* a redirect past its lookup lost its Mapping to a Delete and was answered
\* 500 by the foreign key, while another Mapping has the code again
C5_Witness ==
    /\ res # <<>>
    /\ res[1].op = "redirect"
    /\ res[1].err = "foreign_key_violation"
    /\ \E u \in urls : /\ u.short_code = res[1].shortCode
                       /\ u.id # res[1].urlData[1].id

-----------------------------------------------------------------------------
(* C6 *)

\* the lowercase hex characters
LowerHexChars == Range(Digits) \cup {"a", "b", "c", "d", "e", "f"}

\* a string of 6 lowercase hex characters
SixLowerHex(c) == Len(c) = 6 /\ \A i \in DOMAIN c : c[i] \in LowerHexChars

\* C6: a Create of a valid URL without a custom code, no query of which
\* threw, produces a Mapping of the submitted URL under a code of 6 lowercase
\* hex characters
C6_GeneratedCodeCreates ==
    (/\ res # <<>>
     /\ res[1].op = "create"
     /\ res[1].customCode = <<>>
     /\ res[1].originalUrl # <<>>
     /\ isWebUri(res[1].originalUrl)
     /\ res[1].err = "none")
    => /\ res[1].status = 201
       /\ SixLowerHex(res[1].data[1].short_code)
       /\ res[1].data[1].original_url = res[1].originalUrl
       /\ res[1].data[1] \in urls

-----------------------------------------------------------------------------
(* C7 *)

\* the characters of the class [A-Za-z0-9]
PatternChars ==
    Range(LowerLetters) \cup Range(UpperLetters) \cup Range(Digits)

\* the pattern /^[A-Za-z0-9]{6,8}$/
SixToEightAlnum(c) ==
    /\ Len(c) >= 6
    /\ Len(c) <= 8
    /\ \A i \in DOMAIN c : c[i] \in PatternChars

\* no Mapping has a code outside the pattern
CodesInPattern == \A u \in urls : SixToEightAlnum(u.short_code)

\* a Create with a custom code outside the pattern never reaches a query: it
\* is never in flight, and it is answered 400 in the step that takes it,
\* whatever the store would have done, with the store as it was
InvalidCodeRejected ==
    /\ \A q \in BagToSet(req') :
          (q.op = "create" /\ Starts(q)) => SixToEightAlnum(q.shortCode)
    /\ (/\ Answers
        /\ res'[1].op = "create"
        /\ res'[1].customCode # <<>>
        /\ ~SixToEightAlnum(trim(res'[1].customCode)))
       => /\ req' = req
          /\ res'[1].status = 400
          /\ res'[1].err = "none"
          /\ StoreUntouched
          /\ SequencesUntouched

\* C7: a Create whose custom code, trimmed, is not 6 to 8 alphanumeric
\* characters is answered 400 before any query, the store unchanged; and no
\* Mapping with a code outside the pattern is ever in the store
C7_InvalidCodeRejected ==
    /\ []CodesInPattern
    /\ [][InvalidCodeRejected]_vars

\* a custom code with an underscore was rejected for its pattern, while a
\* custom code that is in the pattern once trimmed has a Mapping
C7_Witness ==
    /\ res # <<>>
    /\ res[1].op = "create"
    /\ res[1].status = 400
    /\ res[1].error = "Code must be 6-8 alphanumeric characters"
    /\ res[1].customCode = <<"a","b","c","_","e","f">>
    /\ HasCode(ABCDEF)

-----------------------------------------------------------------------------
(* C8 *)

\* text contains term as a literal substring, letter case apart
ContainsCI(text, term) ==
    \E i \in 0..(Len(text) - Len(term)) :
        \A j \in 1..Len(term) : LowerChar(text[i + j]) = LowerChar(term[j])

\* C8: a List answered 200 returns exactly the Mappings whose short_code or
\* original_url contains the search term as a literal substring, letter case
\* apart, newest-created first
C8_ListIsLiteralSubstring ==
    (res # <<>> /\ res[1].op = "list" /\ res[1].status = 200)
    => LET data == res[1].data
           term == res[1].search
       IN  /\ {data[i].id : i \in DOMAIN data} =
                {u.id : u \in {v \in urls :
                                  \/ ContainsCI(v.short_code, term)
                                  \/ ContainsCI(v.original_url, term)}}
           /\ Len(data) = Cardinality({data[i].id : i \in DOMAIN data})
           /\ \A i, j \in DOMAIN data :
                 i < j => \A u, v \in urls :
                             (u.id = data[i].id /\ v.id = data[j].id)
                             => u.created_at >= v.created_at

-----------------------------------------------------------------------------
(* C9 *)

\* the request in flight p is answered in this step
AnswersTo(p) ==
    /\ Answers
    /\ BagIn(p, req)
    /\ req' = req (-) SetToBag({p})
    /\ res'[1].op = p.op
    /\ res'[1].shortCode = p.shortCode
    /\ res'[1].urlData = p.urlData

\* the steps of a redirect come in the order Lookup, Update, Log: a redirect
\* enters in flight at its Update with the Mapping its Lookup found, and goes
\* from there to its Log only, once, the Mapping clicked if it is in the store
InOrder ==
    /\ \A q \in BagToSet(req') :
          (q.op = "redirect" /\ Starts(q))
          => /\ q.pc = "update"
             /\ Len(q.urlData) = 1
             /\ q.urlData[1] \in urls
             /\ q.urlData[1].short_code = q.shortCode
             /\ StoreUntouched
    /\ \A p \in BagToSet(req), q \in BagToSet(req') :
          (p.op = "redirect" /\ p # q /\ Advances(p, q))
          => /\ p.pc = "update"
             /\ q = [p EXCEPT !.pc = "log"]
             /\ click_logs' = click_logs
             /\ \A u \in urls :
                   u.id = p.urlData[1].id
                   => /\ u \notin urls'
                      /\ \E v \in urls' : /\ v.id = u.id
                                          /\ v.click_count = u.click_count + 1

\* the redirect is issued by the Log step alone, with the entry written
RedirectAfterBothWrites ==
    Answers302
    => \E p \in BagToSet(req) :
          /\ AnswersTo(p)
          /\ p.pc = "log"
          /\ res'[1].location = p.urlData[1].original_url
          /\ urls' = urls
          /\ \E l \in click_logs' \ click_logs : l.url_id = p.urlData[1].id

\* a redirect whose query throws ends with 500 and no redirect, and what the
\* store holds stays: the click_count an Update raised is not taken back
FailureKeepsWrites ==
    (Answers /\ res'[1].op = "redirect" /\ res'[1].err # "none")
    => /\ res'[1].status = 500
       /\ res'[1].location = <<>>
       /\ StoreUntouched

\* a redirect past its Update is answered by its Log step, with 302 or 500
LogStepEnds ==
    \A p \in BagToSet(req) :
        (p.op = "redirect" /\ p.pc = "log" /\ ~BagIn(p, req') )
        => /\ AnswersTo(p)
           /\ \/ Answers302
              \/ res'[1].status = 500 /\ res'[1].err # "none"

\* C9: the redirect handler runs Lookup, Update, Log, Redirect in that order
\* and once each; the 302 to original_url is issued only by the step that
\* wrote the Click Log Entry, after the Update; a query that throws ends the
\* request with 500 and no redirect, and the click_count the Update raised
\* stays raised
C9_LookupUpdateLogRedirect ==
    [][InOrder /\ RedirectAfterBothWrites /\ FailureKeepsWrites /\ LogStepEnds]_vars

\* the INSERT of a redirect threw after its UPDATE: the answer is 500, the
\* Mapping keeps the click, and has no Click Log Entry
C9_Witness ==
    /\ res # <<>>
    /\ res[1].op = "redirect"
    /\ res[1].status = 500
    /\ res[1].err = "store"
    /\ res[1].urlData # <<>>
    /\ click_logs = {}
    /\ \E u \in urls :
          /\ u.id = res[1].urlData[1].id
          /\ u.click_count = res[1].urlData[1].click_count + 1

-----------------------------------------------------------------------------
(* C10 *)

\* an id names one Mapping, and one Click Log Entry
UniqueIds ==
    /\ \A u, v \in urls : u.id = v.id => u = v
    /\ \A l, m \in click_logs : l.id = m.id => l = m

\* the step is one of a request of operation o
StepOf(o) ==
    \/ Answers /\ res'[1].op = o
    \/ \E q \in BagToSet(req') : q.op = o /\ Starts(q)
    \/ \E p \in BagToSet(req), q \in BagToSet(req') :
          p.op = o /\ p # q /\ Advances(p, q)

\* a Mapping keeps its id, short_code, original_url and created_at as long as
\* it is in the store, and a Click Log Entry all it has
FixedFields ==
    /\ \A u \in urls, v \in urls' :
          u.id = v.id => /\ v.short_code = u.short_code
                         /\ v.original_url = u.original_url
                         /\ v.created_at = u.created_at
    /\ \A l \in click_logs, m \in click_logs' : l.id = m.id => l = m

\* a Mapping that changes is changed by the Update of a redirect that looked
\* it up
OnlyRedirectClicks ==
    \A u \in urls, v \in urls' :
        (u.id = v.id /\ u # v)
        => \E p \in BagToSet(req) :
              /\ p.op = "redirect"
              /\ p.pc = "update"
              /\ p.urlData[1].id = u.id
              /\ Advances(p, [p EXCEPT !.pc = "log"])

\* Create, List, Get, a Delete that finds nothing and the health check leave
\* every Mapping and every Click Log Entry there is as it is
OthersLeaveAll ==
    /\ (StepOf("create") \/ StepOf("list") \/ StepOf("get") \/ StepOf("health"))
       => urls \subseteq urls' /\ click_logs' = click_logs
    /\ (StepOf("list") \/ StepOf("get") \/ StepOf("health"))
       => urls' = urls
    /\ (Answers /\ res'[1].op = "delete" /\ res'[1].status # 200)
       => StoreUntouched

\* C10: between its creation and its deletion a Mapping's id, short_code,
\* original_url and created_at never change; click_count and last_clicked_at
\* change only in the Update of a redirect; Create, List, Get, Delete-miss
\* and the health check change no Mapping and no Click Log Entry there is
C10_OnlyRedirectMutates ==
    /\ []UniqueIds
    /\ [][FixedFields /\ OnlyRedirectClicks /\ OthersLeaveAll]_vars

\* a Delete found nothing while the store holds a Mapping clicked twice,
\* after the time of its creation
C10_Witness ==
    /\ res # <<>>
    /\ res[1].op = "delete"
    /\ res[1].status = 404
    /\ \E u \in urls : /\ u.click_count = 2
                       /\ u.last_clicked_at > u.created_at

-----------------------------------------------------------------------------
(* C11 *)

\* the number of Click Log Entries of the Mapping id
Logs(id) == Cardinality({l \in click_logs : l.url_id = id})

\* the number of redirects in flight past their Update, on the Mapping id
AtLog(id) ==
    LET P == {q \in BagToSet(req) : /\ q.op = "redirect"
                                    /\ q.pc = "log"
                                    /\ q.urlData[1].id = id}
    IN  BagCardinality([q \in P |-> req[q]])

\* the click_count of the Mapping id
Clicks(id) == (CHOOSE u \in urls : u.id = id).click_count

\* the clicks of the Mapping id that no Click Log Entry and no redirect on
\* its way to write one accounts for
Gap(id) == Clicks(id) - Logs(id) - AtLog(id)

\* click_count is at least the number of entries plus the redirects that
\* have yet to write theirs
ClicksCoverLogs == \A u \in urls : Gap(u.id) >= 0

\* the step ends a redirect on the Mapping id, past its Update, with 500
LogInsertFails(id) ==
    \E p \in BagToSet(req) :
        /\ p.op = "redirect"
        /\ p.pc = "log"
        /\ p.urlData[1].id = id
        /\ AnswersTo(p)
        /\ res'[1].status = 500

\* the step answers a redirect on the Mapping id with 302 to its URL
Issues302(id) == Answers302 /\ res'[1].urlData[1].id = id

\* a new Mapping has no click and no entry; as long as a Mapping is in the
\* store, its unaccounted clicks go up by one with each log insert that
\* fails after the Update, and not otherwise, and its entries go up by one
\* with each 302 issued for it, and not otherwise
GapCountsFailedInserts ==
    \A v \in urls' :
        IF \E u \in urls : u.id = v.id
        THEN /\ Gap(v.id)' =
                  Gap(v.id) + (IF LogInsertFails(v.id) THEN 1 ELSE 0)
             /\ Logs(v.id)' =
                  Logs(v.id) + (IF Issues302(v.id) THEN 1 ELSE 0)
        ELSE /\ v.click_count = 0
             /\ Logs(v.id)' = 0
             /\ AtLog(v.id)' = 0

\* C11: in every reachable state each Mapping's click_count is at least the
\* number of its Click Log Entries; the difference is the number of
\* redirects on it whose Update is applied and whose log insert has not
\* succeeded (those in flight past their Update, plus one for each insert
\* that failed); the entries are as many as the 302 answers issued for the
\* Mapping; so with no redirect in flight and no failed insert the three
\* numbers are equal, and concurrent redirects lose no increment
C11_ClicksLogsAndRedirects ==
    /\ []ClicksCoverLogs
    /\ [][GapCountsFailedInserts]_vars

\* two redirects of one Mapping ran together; the log insert of one failed,
\* the other is answered 302: two clicks, one entry, nothing in flight
C11_Witness ==
    /\ res # <<>>
    /\ res[1].op = "redirect"
    /\ res[1].status = 302
    /\ res[1].urlData # <<>>
    /\ res[1].urlData[1].click_count = 0
    /\ req = EmptyBag
    /\ \E u \in urls : /\ u.id = res[1].urlData[1].id
                       /\ u.click_count = 2
                       /\ Logs(u.id) = 1

=============================================================================
